---------------------------- MODULE Spec2Model ----------------------------
(***************************************************************************)
(* MEP_votes: the scoring / aggregation pipeline of                        *)
(* src/src/process/process_votes.py, the topic enrichment of               *)
(* src/src/process/topics.py, the parallel fetches of                      *)
(* src/src/fetch/fetch_member_votes.py and src/fetch_group_votes.py, and   *)
(* the per-period, per-topic export of src/src/process/export_to_json.py.  *)
(*                                                                         *)
(* Floating point values are modelled as exact rationals plus the two      *)
(* special values the code can produce, NaN and +/-inf:                    *)
(*     [k |-> "num", n |-> numerator, d |-> denominator]  (d > 0, lowest   *)
(*     terms), [k |-> "nan", ...], [k |-> "inf", n |-> sign, ...].         *)
(* A standard deviation, which is a square root, is kept as the rational   *)
(* under the root; a z-score as its sign and its square.                   *)
(***************************************************************************)
EXTENDS Integers, Sequences, FiniteSets, TLC

VARIABLES
    pc,            \* position of process_votes.main: "start", "loaded", "scored",
                   \* "done", "saved", "returned" ("idle": not run)
    df,            \* the merged per-member-per-vote table (all_votes_raw.csv)
    party_stats,   \* compute_stats: party-level table, keyed by code
    mep_stats,     \* compute_stats: MEP-level table, in output order
    topic,         \* process_votes.main: args.topic, a nullable cell
    tpc,           \* position of topics.main: "start", "read", "built", "filled",
                   \* "failed" ("idle": not run)
    votes,         \* vote_index.csv rows (id, topics, oeil_subjects)
    gt,            \* build_ground_truth_topics: sorted list of topic labels
    votes_clean,   \* fill_topics_from_subjects: rows with topics_filled/_effective
    stats,         \* fill_topics_from_subjects: the returned counters
    run,           \* number of the enrichment run over the same vote index
    columns,       \* the columns of the vote index that topics.main reads
    fpc,           \* position of fetch_all_*_votes: "collecting", "returned",
                   \* "raised" ("idle": not run)
    fetcher,       \* which of the two: "members" or "groups"
    futures,       \* vote id -> the state and the result of its future
    all_members,   \* the list all_members / all_groups of fetched tables
    completed,     \* the counter of futures the as_completed loop has seen
    df_all,        \* the table fetch_all_*_votes returns
    xpc,           \* position of export_to_json.main: "period", "topic", "config",
                   \* "done" ("idle": not run)
    xdf,           \* export_to_json.main: df_all
    period_i,      \* index into PERIODS of the period being exported
    topic_i,       \* index into TOPICS of the topic being exported
    n_exported,    \* n, the value the last call of export_data returned
    log,           \* the lines printed so far
    files,         \* the files written so far: path -> content
    error          \* the exception that ended the run, NoError if none

scoreVars == <<pc, df, party_stats, mep_stats, topic>>
topicVars == <<tpc, votes, gt, votes_clean, stats, run, columns>>
fetchVars == <<fpc, fetcher, futures, all_members, completed, df_all>>
exportVars == <<xpc, xdf, period_i, topic_i, n_exported>>
envVars == <<log, files, error>>

vars == <<scoreVars, topicVars, fetchVars, exportVars, envVars>>

\* the run has raised nothing
NoError == [type |-> "none", args |-> <<>>]

(***************************************************************************)
(* Bounds of the model.                                                    *)
(***************************************************************************)
MaxCount == 8        \* largest count_for / count_against / count_abstentions
MaxTallyRows == 2    \* member rows of the one (vote, group) tally in Init
MaxRows == 3         \* rows of a merged table in InitStats
MaxVotes == 2        \* vote ids 1..MaxVotes
MaxMembers == 2      \* member ids 1..MaxMembers
MaxVoteRows == 2     \* rows of the vote index in InitTopics
MaxRuns == 2         \* enrichment runs over the same vote index
MaxGroup == 6         \* members of the one group in InitGroup
MaxFetch == 2         \* vote ids of the vote index in InitFetch
MaxMainRows == 2      \* rows of all_votes_raw.csv in InitProcess
MaxExportRows == 2    \* rows of all_votes_raw.csv in InitExport
MaxLabelled == 1      \* labelled rows of the vote index in InitMatch

Codes == {"EPP", "SD"}           \* group codes
\* member_voted values of the rows in InitStats
StatPositions == {0, 1, 3}
\* <<count_for, count_against, count_abstentions>> of the tallies in InitStats
StatTallies == { <<1, 0, 0>>, <<2, 1, 0>> }

(***************************************************************************)
(* Position codes, src/src/fetch/fetch_member_votes.py position_map.       *)
(***************************************************************************)
AGAINST == 0
FOR == 1
ABSTENTION == 2
DID_NOT_VOTE == 3

Positions == {AGAINST, FOR, ABSTENTION, DID_NOT_VOTE}

\* fetch_member_votes.py:34-39
position_map ==
    [l \in {"VotePosition.AGAINST", "VotePosition.FOR",
            "VotePosition.ABSTENTION", "VotePosition.DID_NOT_VOTE"} |->
        IF l = "VotePosition.AGAINST" THEN AGAINST
        ELSE IF l = "VotePosition.FOR" THEN FOR
        ELSE IF l = "VotePosition.ABSTENTION" THEN ABSTENTION
        ELSE DID_NOT_VOTE]

\* the NaN that Series.map leaves for a label that is not a key of the dict,
\* kept as an integer that equals no position code: it is in no isin() list,
\* differs from every code and is skipped by count()
NoPosition == -1

\* fetch_member_votes.py:40: df["position"].map(position_map)
MapPosition(l) ==
    IF l \in DOMAIN position_map THEN position_map[l] ELSE NoPosition

\* Series.notna() on the member_voted column
VotedNotNull(r) == r.member_voted # NoPosition

(***************************************************************************)
(* Exact arithmetic standing for float64.                                  *)
(***************************************************************************)
Abs(x) == IF x < 0 THEN -x ELSE x

Sign(x) == IF x < 0 THEN -1 ELSE IF x > 0 THEN 1 ELSE 0

RECURSIVE Gcd(_, _)
Gcd(a, b) == IF b = 0 THEN a ELSE Gcd(b, a % b)

\* the rational n/d (d # 0) in lowest terms with a positive denominator
Num(n, d) ==
    LET g == Gcd(Abs(n), Abs(d))
        s == IF d < 0 THEN -1 ELSE 1
    IN  [k |-> "num", n |-> (s * n) \div g, d |-> (s * d) \div g]

NaN == [k |-> "nan", n |-> 0, d |-> 1]

Inf(s) == [k |-> "inf", n |-> s, d |-> 1]

Int2F(i) == Num(i, 1)

\* IEEE-754 / numpy division: x/0 is nan or +/-inf, never an exception
FDiv(a, b) ==
    IF a.k = "nan" \/ b.k = "nan" THEN NaN
    ELSE IF b.k = "inf" THEN (IF a.k = "inf" THEN NaN ELSE Int2F(0))
    ELSE IF a.k = "inf" THEN Inf(a.n * (IF b.n < 0 THEN -1 ELSE 1))
    ELSE IF b.n = 0 THEN (IF a.n = 0 THEN NaN ELSE Inf(Sign(a.n)))
    ELSE Num(a.n * b.d, a.d * b.n)

FMul(a, b) ==
    IF a.k = "nan" \/ b.k = "nan" THEN NaN
    ELSE IF a.k = "inf" \/ b.k = "inf"
         THEN (IF a.n = 0 \/ b.n = 0 THEN NaN ELSE Inf(Sign(a.n) * Sign(b.n)))
    ELSE Num(a.n * b.n, a.d * b.d)

FAdd(a, b) ==
    IF a.k = "nan" \/ b.k = "nan" THEN NaN
    ELSE IF a.k = "inf" /\ b.k = "inf" THEN (IF a.n = b.n THEN a ELSE NaN)
    ELSE IF a.k = "inf" THEN a
    ELSE IF b.k = "inf" THEN b
    ELSE Num(a.n * b.d + b.n * a.d, a.d * b.d)

FNeg(a) == IF a.k = "nan" THEN NaN ELSE [a EXCEPT !.n = -a.n]

FSub(a, b) == FAdd(a, FNeg(b))

\* a < b for two finite values
FLess(a, b) == a.n * b.d < b.n * a.d

Max3(a, b, c) ==
    IF a >= b /\ a >= c THEN a ELSE IF b >= c THEN b ELSE c

(***************************************************************************)
(* calculate_scores, src/src/process/process_votes.py:12-32.               *)
(***************************************************************************)
\* faulty variant of MajCols: the column order of line 22, FOR first
MajCols_ForFirst == <<"count_for", "count_against", "count_abstentions">>

\* column order handed to idxmax (line 16)
MajCols == <<"count_against", "count_for", "count_abstentions">>

\* line 17
maj_map == [count_against |-> AGAINST, count_for |-> FOR,
            count_abstentions |-> ABSTENTION]

\* DataFrame.idxmax(axis=1): the label of the first column holding the
\* row maximum
idxmax(r, cols) ==
    LET i == CHOOSE i \in 1..Len(cols) :
                 /\ \A j \in 1..Len(cols) : r[cols[j]] <= r[cols[i]]
                 /\ \A j \in 1..(i - 1) : r[cols[j]] < r[cols[i]]
    IN  cols[i]

\* lines 16-18
group_majority(r) == maj_map[idxmax(r, MajCols)]

\* line 21
total(r) == r.count_for + r.count_against + r.count_abstentions

\* faulty variant of M: the maximum over count_for and count_against only
M_ForAgainstOnly(r) == IF r.count_for >= r.count_against THEN r.count_for
                       ELSE r.count_against

\* line 22
M(r) == Max3(r.count_for, r.count_against, r.count_abstentions)

\* faulty variant of AI: the minority mass is not halved
AI_NoHalf(r) ==
    LET raw == FDiv(FSub(Int2F(M(r)), Int2F(total(r) - M(r))), Int2F(total(r)))
    IN  IF total(r) > 0 THEN raw ELSE Int2F(0)

\* faulty variant of AIGuard: line 23 without .where(total > 0, 0.0)
Unguarded(raw, t) == raw

\* Series.where(total > 0, 0.0) of line 23
AIGuard(raw, t) == IF t > 0 THEN raw ELSE Int2F(0)

\* line 23: ((M - (total - M) / 2) / total).where(total > 0, 0.0)
AI(r) ==
    LET raw == FDiv(FSub(Int2F(M(r)), FDiv(Int2F(total(r) - M(r)), Int2F(2))),
                    Int2F(total(r)))
    IN  AIGuard(raw, total(r))

\* faulty variant of participated: DID_NOT_VOTE counts as taking part
participated_All(r) == r.member_voted \in {0, 1, 2, 3}

\* faulty variant of participated: only AGAINST and FOR count as taking part
participated_ForAgainst(r) == r.member_voted \in {0, 1}

\* line 26
participated(r) == r.member_voted \in {0, 1, 2}

\* line 27
deviation(r) ==
    IF participated(r) /\ r.member_voted # group_majority(r) THEN 1 ELSE 0

\* line 30
rebel_score(r) == FMul(Int2F(deviation(r)), AI(r))

\* lines 18-30: the four columns are added to (or overwritten in) the row
ScoreRow(r) ==
    [group_majority |-> group_majority(r), AI |-> AI(r),
     deviation |-> deviation(r), rebel_score |-> rebel_score(r)] @@ r

calculate_scores(d) == [i \in 1..Len(d) |-> ScoreRow(d[i])]


(***************************************************************************)
(* compute_stats, src/src/process/process_votes.py:36-79.                  *)
(***************************************************************************)
RECURSIVE FSum(_)
FSum(xs) == IF xs = <<>> THEN Int2F(0) ELSE FAdd(Head(xs), FSum(Tail(xs)))

\* Series.mean() of a non-empty column
FMean(xs) == FDiv(FSum(xs), Int2F(Len(xs)))

Column(rows, f) == [i \in 1..Len(rows) |-> rows[i][f]]

Range(s) == { s[i] : i \in 1..Len(s) }

\* the ascending list of a finite set of integers
RECURSIVE SortedInts(_)
SortedInts(S) ==
    IF S = {} THEN <<>>
    ELSE LET m == CHOOSE x \in S : \A y \in S : x <= y
         IN  <<m>> \o SortedInts(S \ {m})

\* lines 45-49: groupby("code").agg({"AI": "mean", "vote_id": "nunique"})
PartyStats(d) ==
    [c \in { d[i].code : i \in 1..Len(d) } |->
        LET rows == SelectSeq(d, LAMBDA r : r.code = c)
        IN  [avg_AI |-> FMean(Column(rows, "AI")),
             n_votes |-> Cardinality(Range(Column(rows, "vote_id")))]]

\* faulty variant of MepAgg: party and country come from the member's last row
MepAgg_LastRow(d) ==
    LET ids == SortedInts({ d[i].member_id : i \in 1..Len(d) })
    IN  [j \in 1..Len(ids) |->
            LET rows == SelectSeq(d, LAMBDA r : r.member_id = ids[j])
            IN  [member_id |-> ids[j],
                 avg_rebel_score |-> FMean(Column(rows, "rebel_score")),
                 total_rebel_score |-> FSum(Column(rows, "rebel_score")),
                 n_votes |-> Len(SelectSeq(rows, VotedNotNull)),
                 party |-> rows[Len(rows)].code,
                 country |-> rows[Len(rows)].country]]

\* lines 53-61: groupby("member.id").agg(...).reset_index(); the groups come
\* out in ascending key order, "first" takes the first row in input order
MepAgg(d) ==
    LET ids == SortedInts({ d[i].member_id : i \in 1..Len(d) })
    IN  [j \in 1..Len(ids) |->
            LET rows == SelectSeq(d, LAMBDA r : r.member_id = ids[j])
            IN  [member_id |-> ids[j],
                 avg_rebel_score |-> FMean(Column(rows, "rebel_score")),
                 total_rebel_score |-> FSum(Column(rows, "rebel_score")),
                 n_votes |-> Len(SelectSeq(rows, VotedNotNull)),
                 party |-> rows[1].code,
                 country |-> rows[1].country]]

\* the square of a finite value
FSq(a) == FMul(a, a)

\* faulty variant of FStd: the population standard deviation (ddof = 0)
FStd_Population(xs) ==
    IF Len(xs) < 2 THEN NaN
    ELSE LET mu == FMean(xs)
             ss == FSum([i \in 1..Len(xs) |-> FSq(FSub(xs[i], mu))])
             v  == FDiv(ss, Int2F(Len(xs)))
         IN  [k |-> "sqrt", n |-> v.n, d |-> v.d]

\* Series.std(): the sample standard deviation (ddof = 1), NaN for fewer than
\* two values; the value is sqrt(n/d), kept as [k |-> "sqrt", n, d]
FStd(xs) ==
    IF Len(xs) < 2 THEN NaN
    ELSE LET mu == FMean(xs)
             ss == FSum([i \in 1..Len(xs) |-> FSq(FSub(xs[i], mu))])
             v  == FDiv(ss, Int2F(Len(xs) - 1))
         IN  [k |-> "sqrt", n |-> v.n, d |-> v.d]

\* lines 64-65: groupby("party")["avg_rebel_score"].agg(["mean", "std"])
PartyAgg(ms) ==
    [p \in { ms[i].party : i \in 1..Len(ms) } |->
        LET xs == Column(SelectSeq(ms, LAMBDA r : r.party = p), "avg_rebel_score")
        IN  [party_avg_rebel |-> FMean(xs), party_std |-> FStd(xs)]]

\* line 69: Series.replace(0, float("inf")); NaN is not 0 and stays NaN
ReplaceZeroByInf(s) ==
    IF s.k = "sqrt" /\ s.n = 0 THEN Inf(1) ELSE s

\* a z-score: NaN, or s * sqrt(n/d) kept as [k |-> "root", s, n, d]
ZRoot(s, n, d) == [k |-> "root", s |-> s, n |-> n, d |-> d]

ZZero == ZRoot(0, 0, 1)

\* lines 67-70: (avg_rebel_score - party_avg_rebel) / party_std'
ZScore(avg, mean, std) ==
    LET diff == FSub(avg, mean)
    IN  IF diff.k = "nan" \/ std.k = "nan" THEN NaN
        ELSE IF std.k = "inf" THEN ZZero
        ELSE IF diff.n = 0 THEN ZZero
        ELSE LET q == FDiv(FSq(diff), Num(std.n, std.d))
             IN  ZRoot(Sign(diff.n), q.n, q.d)

\* faulty variant of GreaterThanTwo: the distance from the mean, |z| > 2
GreaterThanTwo_Abs(z) == z.k = "root" /\ z.s # 0 /\ z.n > 4 * z.d

\* line 73: z > 2; a comparison with NaN is False
GreaterThanTwo(z) == z.k = "root" /\ z.s = 1 /\ z.n > 4 * z.d

\* lines 66-74, before the sort
MepScored(d) ==
    LET ms == MepAgg(d)
        pa == PartyAgg(ms)
    IN  [j \in 1..Len(ms) |->
            LET z == ZScore(ms[j].avg_rebel_score,
                            pa[ms[j].party].party_avg_rebel,
                            ReplaceZeroByInf(pa[ms[j].party].party_std))
            IN  [member_id |-> ms[j].member_id,
                 avg_rebel_score |-> ms[j].avg_rebel_score,
                 total_rebel_score |-> ms[j].total_rebel_score,
                 n_votes |-> ms[j].n_votes,
                 party |-> ms[j].party,
                 country |-> ms[j].country,
                 party_avg_rebel |-> pa[ms[j].party].party_avg_rebel,
                 z_score |-> z,
                 is_outlier |-> GreaterThanTwo(z)]]

\* a < b for two z-scores that are not NaN
ZLess(a, b) ==
    IF a.s # b.s THEN a.s < b.s
    ELSE IF a.s = 1 THEN a.n * b.d < b.n * a.d
    ELSE IF a.s = -1 THEN a.n * b.d > b.n * a.d
    ELSE FALSE

Perms(n) == { f \in [1..n -> 1..n] : \A i, j \in 1..n : i # j => f[i] # f[j] }

Permute(s, f) == [i \in 1..Len(s) |-> s[f[i]]]

\* the orders in which a descending sort may leave the rows S of ms: a row
\* comes first if no other row has a greater z_score
RECURSIVE DescendingOrders(_, _)
DescendingOrders(ms, S) ==
    IF S = {} THEN { <<>> }
    ELSE UNION { { <<i>> \o t : t \in DescendingOrders(ms, S \ {i}) } :
                   i \in { j \in S : \A k \in S :
                                ~ZLess(ms[j].z_score, ms[k].z_score) } }

\* line 77: sort_values("z_score", ascending=False).  The rows with a NaN
\* z_score go last, in their previous order (na_position="last"); the others
\* are sorted with the default kind, quicksort, which promises no order among
\* rows of equal z_score
SortValues(ms) ==
    LET nans == { i \in 1..Len(ms) : ms[i].z_score.k = "nan" }
    IN  { Permute(ms, o \o SortedInts(nans)) :
            o \in DescendingOrders(ms, (1..Len(ms)) \ nans) }

(***************************************************************************)
(* Inputs.                                                                 *)
(***************************************************************************)
RawRow(v, m, c, co, cf, ca, cab, p) ==
    [vote_id |-> v, member_id |-> m, code |-> c, country |-> co,
     count_for |-> cf, count_against |-> ca, count_abstentions |-> cab,
     member_voted |-> p]

\* the member rows of one (vote, group) tally: every row carries the tally
\* that aggregate_votes.load_and_merge_data merged onto it
TallyFrames ==
    { [i \in 1..n |-> RawRow(1, i, "EPP", "DE", cf, ca, cab, ps[i])] :
        <<n, cf, ca, cab, ps>> \in
          { t \in (1..MaxTallyRows) \X (0..MaxCount) \X (0..MaxCount)
                    \X (0..MaxCount) \X UNION { [1..k -> Positions] : k \in 1..MaxTallyRows } :
              Len(t[5]) = t[1] } }

\* merged tables over several votes, members and groups; a member has one
\* row per vote, and the rows of one (vote, group) carry the same tally
\* member.country.code: a member's country is the same in all their rows
CountryOf(m) == IF m % 2 = 1 THEN "DE" ELSE "FR"

StatRows ==
    { RawRow(v, m, c, CountryOf(m), t[1], t[2], t[3], p) :
        v \in 1..MaxVotes, m \in 1..MaxMembers, c \in Codes,
        t \in StatTallies, p \in StatPositions }

WellFormed(d) ==
    \A i, j \in 1..Len(d) :
        /\ (i # j => <<d[i].vote_id, d[i].member_id>> # <<d[j].vote_id, d[j].member_id>>)
        /\ (d[i].vote_id = d[j].vote_id /\ d[i].code = d[j].code
              => /\ d[i].count_for = d[j].count_for
                 /\ d[i].count_against = d[j].count_against
                 /\ d[i].count_abstentions = d[j].count_abstentions)

TopicsIdle ==
    /\ tpc = "idle"
    /\ votes = <<>>
    /\ gt = <<>>
    /\ votes_clean = <<>>
    /\ stats = <<>>
    /\ run = 0
    /\ columns = {}

FetchIdle ==
    /\ fpc = "idle"
    /\ fetcher = "members"
    /\ futures = <<>>
    /\ all_members = <<>>
    /\ completed = 0
    /\ df_all = <<>>

ExportIdle ==
    /\ xpc = "idle"
    /\ xdf = <<>>
    /\ period_i = 0
    /\ topic_i = 0
    /\ n_exported = 0

\* nothing printed, nothing written, nothing raised
EnvInit ==
    /\ log = <<>>
    /\ files = <<>>
    /\ error = NoError

\* only process_votes runs
OnlyScores == TopicsIdle /\ FetchIdle /\ ExportIdle /\ EnvInit

Init ==
    /\ pc = "loaded"
    /\ df \in TallyFrames
    /\ party_stats = <<>>
    /\ mep_stats = <<>>
    /\ topic = <<>>
    /\ OnlyScores

(***************************************************************************)
(* process_votes.main, lines 163-167.                                      *)
(***************************************************************************)
CalculateScores ==
    /\ pc = "loaded"
    /\ df' = calculate_scores(df)
    /\ pc' = "scored"
    /\ UNCHANGED <<party_stats, mep_stats, topic>>
    /\ UNCHANGED <<topicVars, fetchVars, exportVars, envVars>>

ComputeStats ==
    /\ pc = "scored"
    /\ party_stats' = PartyStats(df)
    /\ mep_stats' \in SortValues(MepScored(df))
    /\ pc' = "done"
    /\ UNCHANGED <<df, topic>>
    /\ UNCHANGED <<topicVars, fetchVars, exportVars, envVars>>

Next == CalculateScores \/ ComputeStats

Spec == Init /\ [][Next]_vars

(***************************************************************************)
(* Properties of calculate_scores, checked under Spec.                     *)
(***************************************************************************)
Scored == pc \in {"scored", "done"}

Zero == Int2F(0)

One == Int2F(1)

\* a finite value in [0, 1]
InUnitInterval(x) == x.k = "num" /\ 0 <= x.n /\ x.n <= x.d

\* C1: for every tally with non-negative counts and for + against +
\* abstentions > 0, the agreement index AI that calculate_scores stores is a
\* number with 0 <= AI <= 1.
C1_AgreementIndexInUnitInterval ==
    Scored => \A i \in 1..Len(df) :
                 df[i].count_for + df[i].count_against + df[i].count_abstentions > 0
                    => InUnitInterval(df[i].AI)

\* a scored row whose AI lies strictly between 0 and 1
C1_Witness ==
    /\ pc = "scored"
    /\ \E i \in 1..Len(df) :
          /\ df[i].count_for = 3 /\ df[i].count_against = 2
          /\ df[i].count_abstentions = 1
          /\ df[i].AI = Num(1, 4)

\* C2: every scored row has rebel_score in [0, 1], and rebel_score = 0
\* whenever the member's position is DID_NOT_VOTE or equals the group
\* majority position.
C2_RebelScoreBounded ==
    Scored => \A i \in 1..Len(df) :
                 /\ InUnitInterval(df[i].rebel_score)
                 /\ (df[i].member_voted = DID_NOT_VOTE
                        \/ df[i].member_voted = df[i].group_majority)
                      => df[i].rebel_score = Zero

\* a member who did not vote in a cohesive group scores 0
C2_Witness ==
    /\ pc = "scored"
    /\ \E i \in 1..Len(df) :
          /\ df[i].member_voted = DID_NOT_VOTE
          /\ df[i].AI = One
          /\ df[i].rebel_score = Zero

\* C3: rebel_score = deviation x AI, where deviation = 1 exactly when the
\* position is AGAINST, FOR or ABSTENTION and differs from the group
\* majority; with the tally for 8 / against 2 / abstain 0 a FOR voter scores
\* 0 and an AGAINST voter scores 0.7.
C3_RebelIsDeviationTimesAI ==
    Scored => \A i \in 1..Len(df) :
                 LET differs == /\ df[i].member_voted \in {AGAINST, FOR, ABSTENTION}
                                /\ df[i].member_voted # df[i].group_majority
                 IN  /\ df[i].deviation = (IF differs THEN 1 ELSE 0)
                     /\ df[i].rebel_score = (IF differs THEN df[i].AI ELSE Zero)
                     /\ (df[i].count_for = 8 /\ df[i].count_against = 2
                           /\ df[i].count_abstentions = 0)
                          => /\ df[i].member_voted = FOR => df[i].rebel_score = Zero
                             /\ df[i].member_voted = AGAINST
                                  => df[i].rebel_score = Num(7, 10)

\* the scenario of the spec, and an abstainer who leaves a FOR majority
C3_Witness ==
    /\ pc = "scored"
    /\ Len(df) = 2
    /\ df[1].count_for = 8 /\ df[1].count_against = 2
    /\ df[1].count_abstentions = 0
    /\ df[1].member_voted = AGAINST /\ df[1].rebel_score = Num(7, 10)
    /\ df[2].member_voted = ABSTENTION /\ df[2].rebel_score = Num(7, 10)

\* the count a tally holds for a position
CountOf(r, p) ==
    IF p = AGAINST THEN r.count_against
    ELSE IF p = FOR THEN r.count_for
    ELSE r.count_abstentions

\* the tie-break priority, highest first
Priority == <<AGAINST, FOR, ABSTENTION>>

\* C4: group_majority is the position with the largest count among AGAINST,
\* FOR, ABSTENTION, and among positions tied for the maximum the one that
\* comes first in AGAINST > FOR > ABSTENTION (for 5 / against 5 gives
\* AGAINST).
C4_MajorityTieBreak ==
    Scored => \A i \in 1..Len(df) :
                 \E a \in 1..3 :
                    /\ df[i].group_majority = Priority[a]
                    /\ \A b \in 1..3 :
                          CountOf(df[i], Priority[b]) <= CountOf(df[i], Priority[a])
                    /\ \A b \in 1..(a - 1) :
                          CountOf(df[i], Priority[b]) < CountOf(df[i], Priority[a])

\* the tie for 5 / against 5 / abstain 0 is resolved to AGAINST
C4_Witness ==
    /\ pc = "scored"
    /\ df[1].count_for = 5 /\ df[1].count_against = 5
    /\ df[1].count_abstentions = 0
    /\ df[1].group_majority = AGAINST

\* C5: for the tally 0 / 0 / 0 calculate_scores completes and stores
\* agreement index 0 (not NaN, not infinite) and rebel_score 0 in every
\* member row of that (vote, group).
C5_EmptyTallyGuard ==
    Scored => \A i \in 1..Len(df) :
                 (df[i].count_for = 0 /\ df[i].count_against = 0
                    /\ df[i].count_abstentions = 0)
                   => df[i].AI = Zero /\ df[i].rebel_score = Zero

\* two members of a group with an empty tally, one of them leaving the
\* (tie-broken) majority, both scored 0
C5_Witness ==
    /\ pc = "scored"
    /\ Len(df) = 2
    /\ \A i \in 1..2 : df[i].count_for + df[i].count_against
                          + df[i].count_abstentions = 0
    /\ df[1].member_voted = FOR /\ df[1].deviation = 1
    /\ df[1].rebel_score = Zero /\ df[2].rebel_score = Zero

\* C6: for every tally with total > 0 the agreement index equals
\* (M - (total - M)/2)/total = (3M - total)/(2 total), M the largest of the
\* three counts; it is 1 when exactly one count is non-zero.
C6_AgreementIndexFormula ==
    Scored => \A i \in 1..Len(df) :
                 LET cs == {df[i].count_for, df[i].count_against,
                            df[i].count_abstentions}
                     mx == CHOOSE c \in cs : \A e \in cs : e <= c
                     tt == df[i].count_for + df[i].count_against
                              + df[i].count_abstentions
                     nz == Cardinality({ p \in {AGAINST, FOR, ABSTENTION} :
                                            CountOf(df[i], p) > 0 })
                 IN  tt > 0 =>
                        /\ df[i].AI.k = "num"
                        /\ df[i].AI.n * 2 * tt = (3 * mx - tt) * df[i].AI.d
                        /\ nz = 1 => df[i].AI = One

\* a unanimous abstention has AI 1, and a plurality of abstentions counts as M
C6_Witness ==
    /\ pc = "scored"
    /\ Len(df) = 1
    /\ \/ /\ df[1].count_for = 0 /\ df[1].count_against = 0
          /\ df[1].count_abstentions = 8 /\ df[1].AI = One
       \/ /\ df[1].count_for = 1 /\ df[1].count_against = 1
          /\ df[1].count_abstentions = 4 /\ df[1].AI = Num(1, 2)

(***************************************************************************)
(* Properties of compute_stats, checked under SpecStats.                   *)
(***************************************************************************)
\* C7: in every group whose legislators all have the same avg_rebel_score,
\* whatever its size, every legislator has z_score = 0 and is_outlier =
\* FALSE, and the z_score is never NaN or infinite.
C7_DegenerateGroupZScoreZero ==
    pc = "done" =>
        \A i \in 1..Len(mep_stats) :
            (\A j \in 1..Len(mep_stats) :
                mep_stats[j].party = mep_stats[i].party
                   => mep_stats[j].avg_rebel_score = mep_stats[i].avg_rebel_score)
              => /\ mep_stats[i].z_score = ZZero
                 /\ mep_stats[i].is_outlier = FALSE

\* the records a run over the rows of df taken in the order f produces
StatsOfOrder(f) ==
    LET d == calculate_scores(Permute(df, f))
    IN  [party |-> PartyStats(d), mep |-> Range(MepScored(d))]

\* C8: for inputs whose rows are permutations of each other,
\* calculate_scores followed by compute_stats yields the same per-legislator
\* records and the same per-group records.
C8_OrderInsensitive ==
    pc = "done" =>
        \A f \in Perms(Len(df)) :
            StatsOfOrder(f) = [party |-> party_stats, mep |-> Range(mep_stats)]

\* C12: compute_stats returns the LegislatorStats rows in non-increasing
\* z_score order, and rows with equal z_score keep the relative order they had
\* before the sort (ascending member id, the order of the groupby).
C12_SortedStable ==
    pc = "done" =>
        \A i, j \in 1..Len(mep_stats) :
            (i < j /\ mep_stats[i].z_score.k = "root"
                   /\ mep_stats[j].z_score.k = "root")
              => /\ ~ZLess(mep_stats[i].z_score, mep_stats[j].z_score)
                 /\ mep_stats[i].z_score = mep_stats[j].z_score
                      => mep_stats[i].member_id < mep_stats[j].member_id

(***************************************************************************)
(* The merged tables the statistics are checked on.                        *)
(***************************************************************************)
InitStats ==
    /\ pc = "loaded"
    /\ \E n \in 1..MaxRows : df \in { d \in [1..n -> StatRows] : WellFormed(d) }
    /\ party_stats = <<>>
    /\ mep_stats = <<>>
    /\ topic = <<>>
    /\ OnlyScores

SpecStats == InitStats /\ [][Next]_vars

(***************************************************************************)
(* One group of up to MaxGroup members in one vote: the tables on which a  *)
(* z-score leaves the interval [-2, 2].                                    *)
(***************************************************************************)
GroupPositions == {AGAINST, FOR}

InitGroup ==
    /\ pc = "loaded"
    /\ \E n \in 1..MaxGroup, t \in StatTallies, ps \in [1..MaxGroup -> GroupPositions] :
          /\ \A i \in (n + 1)..MaxGroup : ps[i] = AGAINST
          /\ df = [i \in 1..n |->
                     RawRow(1, i, "EPP", CountryOf(i), t[1], t[2], t[3], ps[i])]
    /\ party_stats = <<>>
    /\ mep_stats = <<>>
    /\ topic = <<>>
    /\ OnlyScores

SpecGroup == InitGroup /\ [][Next]_vars

\* the z-scores 2.5, -1.0, 3.1 and 2 of the sorting scenario
Z_2_5 == ZRoot(1, 25, 4)

Z_Minus1 == ZRoot(-1, 1, 1)

Z_3_1 == ZRoot(1, 961, 100)

Z_2 == ZRoot(1, 4, 1)

\* C11: in the LegislatorStats output is_outlier is True exactly when
\* z_score is strictly greater than 2 (z_score = 2 is not an outlier); the
\* z-scores 2.5, -1.0, 3.1 are flagged True, False, True.
C11_OutlierIffZAboveTwo ==
    /\ pc = "done" =>
          \A i \in 1..Len(mep_stats) :
              LET z == mep_stats[i].z_score
              IN  mep_stats[i].is_outlier
                     <=> (z.k = "root" /\ z.s = 1 /\ z.n > 4 * z.d)
    /\ GreaterThanTwo(Z_2_5) /\ ~GreaterThanTwo(Z_Minus1)
    /\ GreaterThanTwo(Z_3_1) /\ ~GreaterThanTwo(Z_2)

\* one rebel among six members is an outlier, and in a group of five rebels
\* the one loyal member, more than two deviations below the mean, is not
C11_Witness ==
    /\ pc = "done"
    /\ Len(mep_stats) = 6
    /\ \/ /\ mep_stats[1].is_outlier
          /\ mep_stats[1].z_score = ZRoot(1, 25, 6)
          /\ ~mep_stats[2].is_outlier
       \/ /\ mep_stats[6].z_score = ZRoot(-1, 25, 6)
          /\ ~mep_stats[6].is_outlier

(***************************************************************************)
(* Strings, as the str methods topics.py uses act on them.                 *)
(***************************************************************************)
\* the characters of the model's strings in code point order
CodePoints == " ,-ABCDEFGHIJKLMNOPQRSTUVWXYZabcdefghijklmnopqrstuvwxyz"

UpperCase == "ABCDEFGHIJKLMNOPQRSTUVWXYZ"

LowerCase == "abcdefghijklmnopqrstuvwxyz"

Sub(s, i, j) == IF i > j THEN "" ELSE SubSeq(s, i, j)

IndexIn(alphabet, c) ==
    IF \E i \in 1..Len(alphabet) : Sub(alphabet, i, i) = c
    THEN CHOOSE i \in 1..Len(alphabet) : Sub(alphabet, i, i) = c
    ELSE 0

LowerCh(c) ==
    IF IndexIn(UpperCase, c) = 0 THEN c
    ELSE Sub(LowerCase, IndexIn(UpperCase, c), IndexIn(UpperCase, c))

\* str.lower()
RECURSIVE lower(_)
lower(s) == IF s = "" THEN "" ELSE LowerCh(Head(s)) \o lower(Tail(s))

\* str.strip()
RECURSIVE strip(_)
strip(s) ==
    IF s = "" THEN ""
    ELSE IF Head(s) = " " THEN strip(Tail(s))
    ELSE IF Sub(s, Len(s), Len(s)) = " " THEN strip(Sub(s, 1, Len(s) - 1))
    ELSE s

\* str.split(sep) for a one-character separator
RECURSIVE split(_, _)
split(s, sep) ==
    IF \E i \in 1..Len(s) : Sub(s, i, i) = sep
    THEN LET i == CHOOSE i \in 1..Len(s) :
                     /\ Sub(s, i, i) = sep
                     /\ \A j \in 1..(i - 1) : Sub(s, j, j) # sep
         IN  <<Sub(s, 1, i - 1)>> \o split(Sub(s, i + 1, Len(s)), sep)
    ELSE <<s>>

\* str.split(): the maximal runs of non-blank characters
words(s) == SelectSeq(split(s, " "), LAMBDA w : w # "")

\* sep.join(xs)
RECURSIVE join(_, _)
join(sep, xs) ==
    IF xs = <<>> THEN ""
    ELSE IF Len(xs) = 1 THEN xs[1]
    ELSE xs[1] \o sep \o join(sep, Tail(xs))

\* kw in s
contains(s, kw) ==
    \E i \in 1..(Len(s) - Len(kw) + 1) : Sub(s, i, i + Len(kw) - 1) = kw

\* a < b as Python compares str: by code point, a proper prefix first
RECURSIVE StrLess(_, _)
StrLess(a, b) ==
    IF b = "" THEN FALSE
    ELSE IF a = "" THEN TRUE
    ELSE IF Head(a) = Head(b) THEN StrLess(Tail(a), Tail(b))
    ELSE IndexIn(CodePoints, Head(a)) < IndexIn(CodePoints, Head(b))

\* sorted(S) for a set of strings
RECURSIVE sorted(_)
sorted(S) ==
    IF S = {} THEN <<>>
    ELSE LET m == CHOOSE x \in S : \A y \in S \ {x} : StrLess(x, y)
         IN  <<m>> \o sorted(S \ {m})

\* a nullable cell: pd.NA / NaN is <<>>, the string s is <<s>>
NA == <<>>

Some(s) == <<s>>

isna(x) == x = NA

notna(x) == x # NA

(***************************************************************************)
(* topics.py: MAPPING_RULES (31-103), EXTRA_TOPICS (106-112).              *)
(***************************************************************************)
\* the dict in insertion order, as MAPPING_RULES.items() iterates it
MAPPING_RULES ==
    << <<"children", "Youth and culture">>,
       <<"bilateral economic and trade agreements", "International trade">>,
       <<"women", "Gender equality">>,
       <<"refugee", "Migration">>,
       <<"third-country", "Foreign affairs">>,
       <<"information and communication technologies", "Digital">>,
       <<"ozone", "Climate and environment">>,
       <<"fundamental freedoms", "Democracy">>,
       <<"investments", "Economy and budget">>,
       <<"financial services", "Economy and budget">>,
       <<"financial reporting and auditing", "Economy and budget">>,
       <<"diseases", "Health">>,
       <<"medicine", "Health">>,
       <<"protection of privacy and data protection", "Data protection and privacy">>,
       <<"principles common to the member states", "Democracy">>,
       <<"eu values", "Democracy">>,
       <<"common security and defence policy", "Defense">>,
       <<"nato", "Foreign affairs">>,
       <<"action to combat terrorism", "Security and Justice">>,
       <<"structural funds", "Economy and budget">>,
       <<"investment funds", "Economy and budget">>,
       <<"capital outflow", "Economy and budget">>,
       <<"money laundering", "Security and Justice">>,
       <<"european investment bank", "Economy and budget">>,
       <<"business of parliament", "Democracy">>,
       <<"rules of procedure", "Democracy">>,
       <<"fundamental rights in the eu", "Human rights">>,
       <<"charter", "Human rights">>,
       <<"common foreign and security policy", "Foreign affairs">>,
       <<"interinstitutional relations", "Democracy">>,
       <<"subsidiarity", "Democracy">>,
       <<"proportionality", "Democracy">>,
       <<"comitology", "Democracy">>,
       <<"action to combat crime", "Security and Justice">>,
       <<"judicial cooperation in criminal matters", "Security and Justice">>,
       <<"committees", "Democracy">>,
       <<"interparliamentary delegations", "Democracy">>,
       <<"european parliament", "Democracy">>,
       <<"elections", "Democracy">>,
       <<"direct universal suffrage", "Democracy">>,
       <<"cohesion policy", "Economy and budget">>,
       <<"company law", "Economy and budget">>,
       <<"road transport", "Transport">>,
       <<"european ombudsman", "Democracy">>,
       <<"people with disabilities", "Social protection">>,
       <<"internal market", "Economy and budget">>,
       <<"single market", "Economy and budget">>,
       <<"innovation", "Digital">>,
       <<"state and evolution of the union", "Democracy">>,
       <<"european commission", "Democracy">>,
       <<"financial management", "Economy and budget">>,
       <<"business loans", "Economy and budget">>,
       <<"accounting", "Economy and budget">>,
       <<"banks and credit", "Economy and budget">>,
       <<"small and medium-sized enterprises", "Economy and budget">>,
       <<"craft industries", "Economy and budget">>,
       <<"citizen rights", "Human rights">>,
       <<"scientific and technological cooperation", "Digital">>,
       <<"equal treatment", "Human rights">>,
       <<"non-discrimination", "Human rights">>,
       <<"judicial cooperation in civil", "Security and Justice">>,
       <<"macro-financial assistance", "Foreign affairs">>,
       <<"transport regulations", "Transport">>,
       <<"road safety", "Transport">>,
       <<"roadworthiness", "Transport">>,
       <<"driving licence", "Transport">>,
       <<"implementation of eu law", "Democracy">>,
       <<"common commercial policy", "International trade">>,
       <<"trans-european transport", "Transport">>,
       <<"regional cooperation", "Foreign affairs">>,
       <<"cross-border cooperation", "Foreign affairs">> >>

EXTRA_TOPICS ==
    << "Human rights",
       "Democracy",
       "Data protection and privacy",
       "Security and Justice",
       "Transport" >>

(***************************************************************************)
(* build_ground_truth_topics, topics.py:115-131.                           *)
(***************************************************************************)
\* lines 120-124: the stripped, non-empty comma-separated parts of one cell
TopicParts(t) ==
    { strip(p) : p \in Range(split(t, ",")) } \ { "" }

\* lines 117-129: the sorted "topic" column of gt
build_ground_truth_topics(vs) ==
    sorted(UNION { TopicParts(vs[i].topics[1]) :
                     i \in { j \in 1..Len(vs) : notna(vs[j].topics) } }
           \cup Range(EXTRA_TOPICS))

(***************************************************************************)
(* fill_topics_from_subjects, topics.py:134-194.                           *)
(***************************************************************************)
\* line 144: a dict comprehension, the last topic with a given lower-cased
\* form wins
gt_lookup(g) ==
    [k \in { lower(g[i]) : i \in 1..Len(g) } |->
        g[CHOOSE i \in 1..Len(g) :
              /\ lower(g[i]) = k
              /\ \A j \in (i + 1)..Len(g) : lower(g[j]) # k]]

\* line 156
subject_list(subjects) ==
    LET parts == split(subjects, ",")
        stripped == [i \in 1..Len(parts) |-> strip(parts[i])]
    IN  SelectSeq(stripped, LAMBDA p : p # "")

\* lines 162-166: the index of the first rule whose keyword occurs in s_low,
\* 0 when the loop ends without a break
FirstRule(s_low) ==
    IF \E k \in 1..Len(MAPPING_RULES) : contains(s_low, MAPPING_RULES[k][1])
    THEN CHOOSE k \in 1..Len(MAPPING_RULES) :
            /\ contains(s_low, MAPPING_RULES[k][1])
            /\ \A j \in 1..(k - 1) : ~contains(s_low, MAPPING_RULES[j][1])
    ELSE 0

\* lines 160-166: the subjects that hit a rule
MappingHits(sl) == { i \in 1..Len(sl) : FirstRule(lower(sl[i])) # 0 }

\* faulty variant of MappingTopics: the loop over the rules has no break, so
\* every rule whose keyword occurs contributes its topic
MappingTopics_NoBreak(sl) ==
    { MAPPING_RULES[k][2] :
        k \in { j \in 1..Len(MAPPING_RULES) :
                  \E i \in 1..Len(sl) : contains(lower(sl[i]), MAPPING_RULES[j][1]) } }

\* lines 160-166: the topics added by the rules
MappingTopics(sl) ==
    { MAPPING_RULES[FirstRule(lower(sl[i]))][2] : i \in MappingHits(sl) }

\* lines 170-173: the phrase of phrase_len words starting after `start`
Phrase(ws, phrase_len, start) ==
    join(" ", SubSeq(ws, start + 1, start + phrase_len))

\* faulty variant of PhraseHits: the scan of a subject stops at its first,
\* longest, n-gram found in gt_lookup
PhraseHits_LongestOnly(sl, lookup) ==
    LET all == { h \in UNION { { <<i, n, st>> :
                                   n \in 1..Len(words(lower(sl[i]))),
                                   st \in 0..Len(words(lower(sl[i]))) } :
                               i \in 1..Len(sl) } :
                   /\ h[3] <= Len(words(lower(sl[h[1]]))) - h[2]
                   /\ Phrase(words(lower(sl[h[1]])), h[2], h[3]) \in DOMAIN lookup }
    IN  { h \in all : \A g \in all :
                         g[1] = h[1] => \/ g[2] < h[2]
                                        \/ g[2] = h[2] /\ g[3] >= h[3] }

\* lines 169-176: <<subject, phrase_len, start>> of every n-gram in gt_lookup
PhraseHits(sl, lookup) ==
    { h \in UNION { { <<i, n, st>> :
                        n \in 1..Len(words(lower(sl[i]))),
                        st \in 0..Len(words(lower(sl[i]))) } :
                    i \in 1..Len(sl) } :
        /\ h[3] <= Len(words(lower(sl[h[1]]))) - h[2]
        /\ Phrase(words(lower(sl[h[1]])), h[2], h[3]) \in DOMAIN lookup }

PhraseTopics(sl, lookup) ==
    { lookup[Phrase(words(lower(sl[h[1]])), h[2], h[3])] :
        h \in PhraseHits(sl, lookup) }

\* faulty variant of NeedsFill: the test for missing topics is dropped
NeedsFill_AnySubjects(topics, subjects) == notna(subjects)

\* line 155
NeedsFill(topics, subjects) == isna(topics) /\ notna(subjects)

\* faulty variant of topics_filled: the phrase-matching stage is left out
topics_filled_MappingOnly(row, lookup) ==
    IF NeedsFill(row.topics, row.oeil_subjects)
    THEN LET sl == subject_list(row.oeil_subjects[1])
             matched == MappingTopics(sl)
         IN  IF matched # {} THEN Some(join(", ", sorted(matched))) ELSE NA
    ELSE row.topics

\* faulty variant of topics_filled: the matched topics are joined in
\* descending order
topics_filled_Descending(row, lookup) ==
    IF NeedsFill(row.topics, row.oeil_subjects)
    THEN LET sl == subject_list(row.oeil_subjects[1])
             matched == MappingTopics(sl) \cup PhraseTopics(sl, lookup)
             asc == sorted(matched)
         IN  IF matched # {}
             THEN Some(join(", ", [k \in 1..Len(asc) |-> asc[Len(asc) + 1 - k]]))
             ELSE NA
    ELSE row.topics

\* lines 152-183: topics_filled of one row
topics_filled(row, lookup) ==
    IF NeedsFill(row.topics, row.oeil_subjects)
    THEN LET sl == subject_list(row.oeil_subjects[1])
             matched == MappingTopics(sl) \cup PhraseTopics(sl, lookup)
         IN  IF matched # {} THEN Some(join(", ", sorted(matched))) ELSE NA
    ELSE row.topics

\* Series.fillna(other)
fillna(x, other) == IF isna(x) THEN other ELSE x

\* lines 142-185: the returned table
FilledVotes(vs, g) ==
    [i \in 1..Len(vs) |->
        LET tf == topics_filled(vs[i], gt_lookup(g))
        IN  [id |-> vs[i].id, topics |-> vs[i].topics,
             oeil_subjects |-> vs[i].oeil_subjects,
             topics_filled |-> tf,
             topics_effective |-> fillna(tf, vs[i].topics)]]

RECURSIVE SumOver(_, _)
SumOver(S, f) ==
    IF S = {} THEN 0
    ELSE LET x == CHOOSE x \in S : TRUE IN f[x] + SumOver(S \ {x}, f)

\* lines 187-193: the returned counters
FillStats(vs, g) ==
    LET todo == { i \in 1..Len(vs) : NeedsFill(vs[i].topics, vs[i].oeil_subjects) }
        sl == [i \in todo |-> subject_list(vs[i].oeil_subjects[1])]
    IN  [filled_from_mapping_hits |->
             SumOver(todo, [i \in todo |-> Cardinality(MappingHits(sl[i]))]),
         filled_from_phrase_hits |->
             SumOver(todo, [i \in todo |->
                               Cardinality(PhraseHits(sl[i], gt_lookup(g)))]),
         n_topics_missing_before |->
             Cardinality({ i \in 1..Len(vs) : isna(vs[i].topics) }),
         n_topics_missing_after |->
             Cardinality({ i \in 1..Len(vs) :
                             isna(topics_filled(vs[i], gt_lookup(g))) })]

(***************************************************************************)
(* topics.main, lines 233-255, on a vote index that exists.                *)
(***************************************************************************)
INPUT_PATH == "data/vote_index.csv"

OUTPUT_PATH == "data/vote_index_clean.csv"

SUMMARY_PATH == "data/vote_index_clean.summary.txt"

\* the topics cells of the vote index
TopicSamples == { NA, Some("Health"), Some("Energy, Transport") }

\* the oeil_subjects cells of the vote index
SubjectSamples ==
    { NA, Some("Diseases"), Some("Public health"),
      Some("Road transport, Women and children"),
      Some("Human rights in Belarus") }

VoteIndexes ==
    UNION { { [i \in 1..n |-> [id |-> i, topics |-> ts[i],
                               oeil_subjects |-> ss[i]]] :
                ts \in [1..n -> TopicSamples], ss \in [1..n -> SubjectSamples] } :
            n \in 1..MaxVoteRows }

\* line 241
required_cols == {"id", "topics", "oeil_subjects"}

\* a vote index that has only the columns cols
WithColumns(vs, cols) == [i \in 1..Len(vs) |-> [c \in cols |-> vs[i][c]]]

ScoresIdle ==
    /\ pc = "idle"
    /\ df = <<>>
    /\ party_stats = <<>>
    /\ mep_stats = <<>>
    /\ topic = NA

\* line 233: the vote index file exists, with some of the columns
InitTopics ==
    /\ tpc = "start"
    /\ columns \in SUBSET required_cols
    /\ votes \in { WithColumns(vs, columns) : vs \in VoteIndexes }
    /\ gt = <<>>
    /\ votes_clean = <<>>
    /\ stats = <<>>
    /\ run = 1
    /\ ScoresIdle /\ FetchIdle /\ ExportIdle /\ EnvInit

\* repr() of a list of str: ['a', 'b']
RECURSIVE ReprItems(_)
ReprItems(xs) ==
    IF Len(xs) = 0 THEN ""
    ELSE IF Len(xs) = 1 THEN "'" \o xs[1] \o "'"
    ELSE "'" \o xs[1] \o "', " \o ReprItems(Tail(xs))

repr(xs) == "[" \o ReprItems(xs) \o "]"

\* faulty variant of MissingCols: oeil_subjects is not required
MissingCols_NoSubjects(cols) == {"id", "topics"} \ cols

\* line 242
MissingCols(cols) == required_cols \ cols

\* lines 239-244: read_csv and the check of the required columns
ReadVoteIndex ==
    /\ tpc = "start"
    /\ IF MissingCols(columns) # {}
       THEN /\ error' = [type |-> "KeyError",
                         args |-> << INPUT_PATH \o " is missing columns: "
                                        \o repr(sorted(MissingCols(columns))) >>]
            /\ tpc' = "failed"
       ELSE /\ tpc' = "read"
            /\ UNCHANGED error
    /\ UNCHANGED <<votes, gt, votes_clean, stats, run, columns, log, files>>
    /\ UNCHANGED <<scoreVars, fetchVars, exportVars>>

\* line 246
BuildGroundTruth ==
    /\ tpc = "read"
    /\ gt' = build_ground_truth_topics(votes)
    /\ tpc' = "built"
    /\ UNCHANGED <<votes, votes_clean, stats, run, columns>>
    /\ UNCHANGED <<scoreVars, fetchVars, exportVars, envVars>>

\* lines 247-255: the table written to vote_index_clean.csv, the counters
\* written to the summary, and the three lines printed
FillTopics ==
    /\ tpc = "built"
    /\ votes_clean' = FilledVotes(votes, gt)
    /\ stats' = FillStats(votes, gt)
    /\ files' = (OUTPUT_PATH :> votes_clean') @@ (SUMMARY_PATH :> stats') @@ files
    /\ log' = log \o << "Saved: " \o OUTPUT_PATH, "Saved: " \o SUMMARY_PATH,
                        "Missing topics after fill: "
                           \o ToString(stats'.n_topics_missing_after) >>
    /\ tpc' = "filled"
    /\ UNCHANGED <<votes, gt, run, columns, error>>
    /\ UNCHANGED <<scoreVars, fetchVars, exportVars>>

\* the enrichment is run again on its own output: the vote index now read
\* at line 239 has each row's topics_effective as its topics
RunAgain ==
    /\ tpc = "filled"
    /\ run < MaxRuns
    /\ votes' = [i \in 1..Len(votes_clean) |->
                    [id |-> votes_clean[i].id,
                     topics |-> votes_clean[i].topics_effective,
                     oeil_subjects |-> votes_clean[i].oeil_subjects]]
    /\ run' = run + 1
    /\ tpc' = "start"
    /\ log' = <<>>
    /\ UNCHANGED <<gt, votes_clean, stats, columns, files, error>>
    /\ UNCHANGED <<scoreVars, fetchVars, exportVars>>

NextTopics == ReadVoteIndex \/ BuildGroundTruth \/ FillTopics \/ RunAgain

SpecTopics == InitTopics /\ [][NextTopics]_vars

(***************************************************************************)
(* Properties of the topic enrichment, checked under SpecTopics.           *)
(***************************************************************************)
\* C9: every row whose raw topics are non-empty keeps them: topics_filled
\* and topics_effective equal the raw topics whatever oeil_subjects holds,
\* and neither matching stage runs on such rows (no hit is counted when
\* every row has raw topics).
C9_LabelledRowsUntouched ==
    tpc = "filled" =>
        /\ \A i \in 1..Len(votes) :
              notna(votes[i].topics)
                 => /\ votes_clean[i].topics_filled = votes[i].topics
                    /\ votes_clean[i].topics_effective = votes[i].topics
        /\ (\A i \in 1..Len(votes) : notna(votes[i].topics))
              => /\ stats.filled_from_mapping_hits = 0
                 /\ stats.filled_from_phrase_hits = 0

\* a labelled row whose subjects would match a rule and a vocabulary phrase
C9_Witness ==
    /\ tpc = "filled"
    /\ run = 1
    /\ Len(votes) = 1
    /\ votes[1].topics = Some("Health")
    /\ votes[1].oeil_subjects = Some("Road transport, Women and children")
    /\ votes_clean[1].topics_effective = Some("Health")
    /\ stats.filled_from_mapping_hits = 0

\* C10: running the vocabulary build and fill_topics_from_subjects again on
\* the enriched data changes no row's topics_effective: filled rows keep
\* their value and rows left empty stay empty.
C10_EnrichmentIdempotent ==
    (tpc = "filled" /\ run > 1) =>
        \A i \in 1..Len(votes) :
            votes_clean[i].topics_effective = votes[i].topics

\* C13 as stated: after enrichment, topics_effective is non-null for every
\* vote row in which at least one of topics or oeil_subjects has content.
C13_EffectiveWhenAnyContent ==
    tpc = "filled" =>
        \A i \in 1..Len(votes) :
            (notna(votes[i].topics) \/ notna(votes[i].oeil_subjects))
               => notna(votes_clean[i].topics_effective)

\* a subject phrase that contains the keyword of a mapping rule
RuleMatches(phrase) ==
    \E k \in 1..Len(MAPPING_RULES) : contains(lower(phrase), MAPPING_RULES[k][1])

\* a subject phrase with a run of consecutive words that spells a topic of
\* the vocabulary g, letter case aside
NGramMatches(phrase, g) ==
    LET ws == words(lower(phrase))
    IN  \E a, b \in 1..Len(ws) :
           /\ a <= b
           /\ \E k \in 1..Len(g) : join(" ", SubSeq(ws, a, b)) = lower(g[k])

\* C13, amended: after enrichment, topics_effective is non-null exactly for
\* the rows whose topics has content or whose oeil_subjects holds a phrase
\* that matches a mapping rule or a vocabulary n-gram; a row without topics
\* whose subjects match nothing keeps a null topics_effective.
C13_EffectiveIffTopicsOrMatch ==
    tpc = "filled" =>
        \A i \in 1..Len(votes) :
            notna(votes_clean[i].topics_effective)
              <=> \/ notna(votes[i].topics)
                  \/ /\ notna(votes[i].oeil_subjects)
                     /\ \E p \in Range(subject_list(votes[i].oeil_subjects[1])) :
                           RuleMatches(p) \/ NGramMatches(p, gt)

\* a row filled by a vocabulary phrase alone next to a row whose subjects
\* match nothing and whose topics_effective stays null
C13_Witness ==
    /\ tpc = "filled"
    /\ run = 1
    /\ Len(votes) = 2
    /\ isna(votes[1].topics) /\ notna(votes[1].oeil_subjects)
    /\ ~(\E p \in Range(subject_list(votes[1].oeil_subjects[1])) : RuleMatches(p))
    /\ notna(votes_clean[1].topics_effective)
    /\ isna(votes[2].topics) /\ notna(votes[2].oeil_subjects)
    /\ isna(votes_clean[2].topics_effective)

\* C15: if the vote index lacks any of the required columns id, topics,
\* oeil_subjects, the enrichment run fails with an error that names exactly
\* the missing columns, and it does so before any vocabulary building, topic
\* filling or output/summary file writing: nothing is built, filled or written
\* in a failed run, and no run without the three columns gets past the check.
C15_MissingColumnsFatal ==
    /\ tpc = "failed" =>
          /\ error.type = "KeyError"
          /\ \A c \in {"id", "topics", "oeil_subjects"} :
                contains(error.args[1], "'" \o c \o "'") <=> c \notin columns
          /\ gt = <<>> /\ votes_clean = <<>> /\ stats = <<>>
          /\ DOMAIN files = {}
    /\ tpc \in {"read", "built", "filled"} =>
          /\ {"id", "topics", "oeil_subjects"} \subseteq columns
          /\ error = NoError

\* a vote index without topics and oeil_subjects: the run has failed, naming
\* the two
C15_Witness ==
    /\ tpc = "failed"
    /\ columns = {"id"}
    /\ Len(votes) = 2
    /\ error.args = << "data/vote_index.csv is missing columns: ['oeil_subjects', 'topics']" >>
    /\ DOMAIN files = {}

(***************************************************************************)
(* fetch_all_member_votes, fetch_member_votes.py:46-76, and                *)
(* fetch_all_group_votes, fetch_group_votes.py:37-67: one future per vote  *)
(* id, run by the pool's workers, collected in completion order.           *)
(***************************************************************************)
\* the position labels of a members.csv; the last is not in position_map
PositionLabels ==
    { "VotePosition.FOR", "VotePosition.AGAINST", "VotePosition.PRESENT" }

\* the members.csv the API may answer with
MemberResponses ==
    { << [position |-> l, member_id |-> 1, code |-> "EPP", country |-> "DE"] >> :
        l \in PositionLabels }

\* the groups.csv the API may answer with
GroupResponses ==
    { << [code |-> "EPP", label |-> "European People's Party",
          count_for |-> t[1], count_against |-> t[2],
          count_abstentions |-> t[3], count_did_not_vote |-> 0] >> :
        t \in StatTallies }

Responses(f) == IF f = "members" THEN MemberResponses ELSE GroupResponses

\* fetch_member_votes.py:19-43: the position label is replaced by its code
fetch_vote_mep(resp) ==
    [i \in 1..Len(resp) |->
        [member_id |-> resp[i].member_id, code |-> resp[i].code,
         country |-> resp[i].country,
         member_voted |-> MapPosition(resp[i].position)]]

\* fetch_group_votes.py:22-34: the six columns of usecols
fetch_vote_groups(resp) ==
    [i \in 1..Len(resp) |->
        [c \in {"code", "label", "count_for", "count_against",
                "count_abstentions", "count_did_not_vote"} |-> resp[i][c]]]

\* fetch_single (lines 54-57 / 45-48): the table of one vote, tagged with
\* its vote id
fetch_single(f, vote_id, resp) ==
    LET t == IF f = "members" THEN fetch_vote_mep(resp) ELSE fetch_vote_groups(resp)
    IN  [i \in 1..Len(t) |-> [vote_id |-> vote_id] @@ t[i]]

\* a future: "pending" until a worker has run it, then "ok" with its table
\* or "failed" with its exception, and "seen" once as_completed has yielded it
Future(st, res, exc) == [state |-> st, result |-> res, exc |-> exc]

\* pd.concat(tables, ignore_index=True)
RECURSIVE concat(_)
concat(tables) ==
    IF tables = <<>> THEN <<>> ELSE Head(tables) \o concat(Tail(tables))

\* lines 50-63: every vote id of the vote index is submitted to the pool
InitFetch ==
    /\ fpc = "collecting"
    /\ fetcher \in {"members", "groups"}
    /\ \E nv \in 1..MaxFetch :
          futures = [v \in 1..nv |-> Future("pending", <<>>, "")]
    /\ all_members = <<>>
    /\ completed = 0
    /\ df_all = <<>>
    /\ ScoresIdle /\ TopicsIdle /\ ExportIdle /\ EnvInit

\* a worker runs fetch_single and the request succeeds
FetchSucceeds ==
    /\ fpc = "collecting"
    /\ \E v \in DOMAIN futures, resp \in Responses(fetcher) :
          /\ futures[v].state = "pending"
          /\ futures' = [futures EXCEPT
                            ![v] = Future("ok", fetch_single(fetcher, v, resp), "")]
    /\ UNCHANGED <<fpc, fetcher, all_members, completed, df_all>>
    /\ UNCHANGED <<scoreVars, topicVars, exportVars, envVars>>

\* a worker runs fetch_single and raise_for_status raises (lines 15-16)
FetchFails ==
    /\ fpc = "collecting"
    /\ \E v \in DOMAIN futures :
          /\ futures[v].state = "pending"
          /\ futures' = [futures EXCEPT ![v] = Future("failed", <<>>, "HTTPError")]
    /\ UNCHANGED <<fpc, fetcher, all_members, completed, df_all>>
    /\ UNCHANGED <<scoreVars, topicVars, exportVars, envVars>>

\* lines 65-73: one iteration of the as_completed loop, over any future that
\* has completed and has not been yielded yet
Collect ==
    /\ fpc = "collecting"
    /\ \E v \in DOMAIN futures :
          /\ futures[v].state \in {"ok", "failed"}
          /\ completed' = completed + 1
          /\ IF futures[v].state = "ok"
             THEN /\ all_members' = Append(all_members, futures[v].result)
                  /\ log' = IF completed' % 50 = 0
                            THEN Append(log, "  Progress: " \o ToString(completed')
                                               \o "/" \o ToString(Len(futures))
                                               \o " votes processed")
                            ELSE log
             ELSE /\ log' = Append(log, "  Error fetching " \o ToString(v)
                                           \o ": " \o futures[v].exc)
                  /\ UNCHANGED all_members
          /\ futures' = [futures EXCEPT ![v].state = "seen"]
    /\ UNCHANGED <<fpc, fetcher, df_all, files, error>>
    /\ UNCHANGED <<scoreVars, topicVars, exportVars>>

\* lines 75-76: once every future has been yielded, the tables are
\* concatenated; pd.concat raises ValueError on an empty list
Concat ==
    /\ fpc = "collecting"
    /\ \A v \in DOMAIN futures : futures[v].state = "seen"
    /\ IF all_members = <<>>
       THEN /\ error' = [type |-> "ValueError",
                         args |-> << "No objects to concatenate" >>]
            /\ fpc' = "raised"
            /\ UNCHANGED df_all
       ELSE /\ df_all' = concat(all_members)
            /\ fpc' = "returned"
            /\ UNCHANGED error
    /\ UNCHANGED <<fetcher, futures, all_members, completed, log, files>>
    /\ UNCHANGED <<scoreVars, topicVars, exportVars>>

NextFetch == FetchSucceeds \/ FetchFails \/ Collect \/ Concat

SpecFetch == InitFetch /\ [][NextFetch]_vars

\* C16: for every subset of vote ids whose per-vote fetch fails,
\* fetch_all_member_votes and fetch_all_group_votes do not raise: each
\* failure is caught and logged, and the function returns a table built from
\* whatever fetches succeeded.
C16_FetchFailuresNeverFatal ==
    /\ fpc # "raised"
    /\ error = NoError
    /\ \A v \in DOMAIN futures :
          (futures[v].state = "seen" /\ futures[v].exc # "")
             => \E k \in 1..Len(log) :
                   log[k] = "  Error fetching " \o ToString(v) \o ": HTTPError"
    /\ fpc = "returned" =>
          { df_all[i].vote_id : i \in 1..Len(df_all) }
             = { v \in DOMAIN futures : futures[v].exc = "" }

(***************************************************************************)
(* process_votes.main, lines 135-176, from the command line on: the table  *)
(* is loaded, filtered by --topic, scored, aggregated and saved.           *)
(***************************************************************************)
\* args.topic: absent, empty, or a word without regular expression syntax
TopicArgs == { NA, Some(""), Some("HEALTH"), Some("budget") }

\* the rows of all_votes_raw.csv: one vote, one group, member i in row i,
\* member_voted as fetch_vote_mep left it, and the topics of the vote either
\* in the raw column topics or, after the enrichment, in topics_effective
MainFrames ==
    UNION {
      { [i \in 1..k |->
            [topics |-> IF enriched THEN NA ELSE ts[i]]
              @@ (IF enriched THEN [topics_effective |-> ts[i]] ELSE <<>>)
              @@ RawRow(1, i, "EPP", CountryOf(i), t[1], t[2], t[3],
                        MapPosition(ls[i]))] :
          t \in StatTallies, enriched \in BOOLEAN,
          ls \in [1..k -> PositionLabels], ts \in [1..k -> TopicSamples] } :
      k \in 1..MaxMainRows }

\* faulty variant of topic_col: the raw topics are always used
topic_col_Raw(d) == "topics"

\* line 84
topic_col(d) ==
    IF "topics_effective" \in DOMAIN d[1] THEN "topics_effective" ELSE "topics"

\* lines 82-86: fillna(""), lower(), contains(topic.lower())
filter_by_topic(d, t) ==
    SelectSeq(d, LAMBDA r :
        contains(lower(fillna(r[topic_col(d)], Some(""))[1]), lower(t)))

\* bool(args.topic)
Truthy(cell) == notna(cell) /\ cell[1] # ""

\* lines 136-147: the arguments are parsed and all_votes_raw.csv exists
InitProcess ==
    /\ pc = "start"
    /\ df \in MainFrames
    /\ topic \in TopicArgs
    /\ party_stats = <<>>
    /\ mep_stats = <<>>
    /\ OnlyScores

\* lines 145-161: the table is read and, when --topic is given, filtered;
\* main returns when no row is left
LoadAndFilter ==
    /\ pc = "start"
    /\ LET loaded == << "Loading data from data/all_votes_raw.csv...",
                        "Loaded " \o ToString(Len(df)) \o " records" >>
           kept == filter_by_topic(df, topic[1])
           filtered == << "Filtered to " \o ToString(Len(kept))
                            \o " records matching topic '" \o topic[1] \o "'" >>
       IN  IF Truthy(topic)
           THEN /\ df' = kept
                /\ IF Len(kept) = 0
                   THEN /\ log' = log \o loaded \o filtered
                                      \o << "No records match this topic." >>
                        /\ pc' = "returned"
                   ELSE /\ log' = log \o loaded \o filtered
                        /\ pc' = "loaded"
           ELSE /\ log' = log \o loaded
                /\ pc' = "loaded"
                /\ UNCHANGED df
    /\ UNCHANGED <<party_stats, mep_stats, topic, files, error>>
    /\ UNCHANGED <<topicVars, fetchVars, exportVars>>

\* lines 169-175: print_stats (its three titles; the tables are not kept in
\* log) and the two files
SaveOutputs ==
    /\ pc = "done"
    /\ LET topic_str == IF Truthy(topic) THEN " (topic: " \o topic[1] \o ")" ELSE ""
           outliers == SelectSeq(mep_stats, LAMBDA r : r.is_outlier)
       IN  log' = log \o
                 << "PARTY-LEVEL STATISTICS" \o topic_str,
                    "TOP 20 REBELS (highest z-score within party)" \o topic_str,
                    "OUTLIERS DETECTED: " \o ToString(Len(outliers))
                       \o " MEPs (z-score > 2)" \o topic_str,
                    "Saved: data/party_stats.csv, data/mep_stats.csv" >>
    /\ files' = ("data/party_stats.csv" :> party_stats)
                   @@ ("data/mep_stats.csv" :> mep_stats) @@ files
    /\ pc' = "saved"
    /\ UNCHANGED <<df, party_stats, mep_stats, topic, error>>
    /\ UNCHANGED <<topicVars, fetchVars, exportVars>>

NextProcess == LoadAndFilter \/ CalculateScores \/ ComputeStats \/ SaveOutputs

(***************************************************************************)
(* export_to_json.main, lines 210-269: one mep_data.json per period and    *)
(* one file per period and topic.                                          *)
(***************************************************************************)
\* lines 13-34; the apostrophe of "Worker's rights" is U+2019 in the source
TOPICS ==
    << "Biodiversity", "Climate and environment", "Climate change",
       "Consumer protection", "Digital", "Economy and budget", "Education",
       "Energy", "Enlargement", "Food and agriculture", "Foreign affairs",
       "Gender equality", "Health", "International trade", "Migration",
       "Social protection", "Taxation", "Travel", "Worker's rights",
       "youth and culture" >>

\* lines 38-53
PERIODS ==
    << [id |-> "ep10", label |-> "EP10 (2024-2029)", start |-> "2024-07-16",
        end |-> "2029-07-15", is_default |-> TRUE],
       [id |-> "ep9", label |-> "EP9 (2019-2024)", start |-> "2019-07-02",
        end |-> "2024-07-15", is_default |-> FALSE] >>

Digits == "0123456789"

\* int(s) for a string of digits
RECURSIVE ParseInt(_)
ParseInt(s) ==
    IF s = "" THEN 0
    ELSE ParseInt(Sub(s, 1, Len(s) - 1)) * 10
           + IndexIn(Digits, Sub(s, Len(s), Len(s))) - 1

\* pd.to_datetime of "YYYY-MM-DD" or "YYYY-MM-DDThh:mm:ss": a date alone is
\* the midnight that begins it
to_datetime(s) ==
    LET field(i, j) == IF j > Len(s) THEN 0 ELSE ParseInt(Sub(s, i, j))
    IN  << field(1, 4), field(6, 7), field(9, 10),
           field(12, 13), field(15, 16), field(18, 19) >>

\* a <= b for two timestamps
RECURSIVE TsLeq(_, _)
TsLeq(a, b) ==
    IF a = <<>> THEN TRUE
    ELSE IF Head(a) # Head(b) THEN Head(a) < Head(b)
    ELSE TsLeq(Tail(a), Tail(b))

\* lines 56-58: every run of characters outside a-z0-9 becomes one "-", and
\* the "-" at both ends are dropped
RECURSIVE Dashed(_, _)
Dashed(s, inRun) ==
    IF s = "" THEN ""
    ELSE IF IndexIn(LowerCase \o Digits, Head(s)) # 0
         THEN Head(s) \o Dashed(Tail(s), FALSE)
         ELSE (IF inRun THEN "" ELSE "-") \o Dashed(Tail(s), TRUE)

RECURSIVE StripDash(_)
StripDash(s) ==
    IF s = "" THEN ""
    ELSE IF Head(s) = "-" THEN StripDash(Tail(s))
    ELSE IF Sub(s, Len(s), Len(s)) = "-" THEN StripDash(Sub(s, 1, Len(s) - 1))
    ELSE s

slugify(text) == StripDash(Dashed(lower(text), FALSE))

\* lines 198-201
filter_by_period(d, period) ==
    SelectSeq(d, LAMBDA r : /\ TsLeq(to_datetime(period.start), r.timestamp)
                            /\ TsLeq(r.timestamp, to_datetime(period.end)))

\* lines 204-207
export_filter_by_topic(d, t) ==
    SelectSeq(d, LAMBDA r :
        contains(lower(fillna(r.topics, Some(""))[1]), lower(t)))

\* the output of export_data for a non-empty table: the meta block and, for
\* each exported MEP record, its member.id
ExportedJson(d) ==
    LET ids == SortedInts({ d[i].member_id : i \in 1..Len(d) })
    IN  [meta |-> [total_votes |-> Cardinality({ d[i].vote_id : i \in 1..Len(d) }),
                   total_meps |-> Len(ids)],
         meps |-> ids]

\* faulty variant of export_data: the guard of lines 145-146 is missing
export_data_NoGuard(d, output_path, fs) ==
    [n |-> Len(ExportedJson(d).meps),
     files |-> (output_path :> ExportedJson(d)) @@ fs]

\* lines 143-195: the value returned and the files afterwards
export_data(d, output_path, fs) ==
    IF Len(d) = 0 THEN [n |-> 0, files |-> fs]
    ELSE [n |-> Len(ExportedJson(d).meps),
          files |-> (output_path :> ExportedJson(d)) @@ fs]

\* lines 238-239, 243, 251
period_dir(p) == "docs/data/periods/" \o p.id

period_path(p) == period_dir(p) \o "/mep_data.json"

topic_path(p, t) == period_dir(p) \o "/topics/" \o slugify(t) \o ".json"

\* the timestamp cells of all_votes_raw.csv: a vote of EP9, of EP10, and of
\* the afternoon of the last day of EP9
TimestampSamples ==
    { "2019-07-02T12:00:00", "2024-07-16T09:30:00", "2024-07-15T15:00:00" }

ExportFrames ==
    UNION { { [i \in 1..k |-> [vote_id |-> i, member_id |-> 1 + (i % 2),
                               timestamp |-> tm[i], topics |-> ts[i]]] :
                tm \in [1..k -> TimestampSamples], ts \in [1..k -> TopicSamples] } :
            k \in 1..MaxExportRows }

\* line 212
InitExport ==
    /\ xpc = "load"
    /\ xdf \in ExportFrames
    /\ period_i = 0
    /\ topic_i = 0
    /\ n_exported = 0
    /\ ScoresIdle /\ TopicsIdle /\ FetchIdle /\ EnvInit

\* lines 211-217: the timestamps are parsed
LoadExport ==
    /\ xpc = "load"
    /\ xdf' = [i \in 1..Len(xdf) |->
                  [xdf[i] EXCEPT !.timestamp = to_datetime(xdf[i].timestamp)]]
    /\ log' = log \o << "Loading raw vote data...",
                        "Loaded " \o ToString(Len(xdf)) \o " vote records",
                        "Using " \o ToString(Len(TOPICS)) \o " topics and "
                           \o ToString(Len(PERIODS)) \o " periods" >>
    /\ period_i' = 1
    /\ xpc' = "period"
    /\ UNCHANGED <<topic_i, n_exported, files, error>>
    /\ UNCHANGED <<scoreVars, topicVars, fetchVars>>

\* lines 223-245: one period; an empty period is skipped, the others get
\* their mep_data.json
ExportPeriod ==
    /\ xpc = "period"
    /\ period_i <= Len(PERIODS)
    /\ LET period == PERIODS[period_i]
           df_period == filter_by_period(xdf, period)
           out == export_data(df_period, period_path(period), files)
           head == << "Processing " \o period.label \o "...",
                      "  " \o ToString(Len(df_period)) \o " votes in period" >>
       IN  IF Len(df_period) = 0
           THEN /\ log' = log \o head
                              \o << "  Skipping " \o period.id \o ": no data" >>
                /\ period_i' = period_i + 1
                /\ UNCHANGED <<xpc, topic_i, n_exported, files>>
           ELSE /\ n_exported' = out.n
                /\ files' = out.files
                /\ log' = log \o head
                              \o << "  " \o period_path(period) \o ": "
                                      \o ToString(out.n) \o " MEPs" >>
                /\ topic_i' = 1
                /\ xpc' = "topic"
                /\ UNCHANGED period_i
    /\ UNCHANGED <<xdf, error>>
    /\ UNCHANGED <<scoreVars, topicVars, fetchVars>>

\* lines 248-256: one topic of the period
ExportTopic ==
    /\ xpc = "topic"
    /\ LET period == PERIODS[period_i]
           t == TOPICS[topic_i]
           df_topic == export_filter_by_topic(filter_by_period(xdf, period), t)
           out == export_data(df_topic, topic_path(period, t), files)
       IN  /\ n_exported' = out.n
           /\ files' = out.files
           /\ log' = Append(log,
                        IF out.n > 0
                        THEN "  " \o topic_path(period, t) \o ": "
                                \o ToString(out.n) \o " MEPs"
                        ELSE "  Skipping " \o t \o ": no data")
    /\ topic_i' = topic_i + 1
    /\ IF topic_i = Len(TOPICS)
       THEN xpc' = "period" /\ period_i' = period_i + 1
       ELSE UNCHANGED <<xpc, period_i>>
    /\ UNCHANGED <<xdf, error>>
    /\ UNCHANGED <<scoreVars, topicVars, fetchVars>>

\* lines 258-269: the configuration of the frontend
SaveConfig ==
    /\ xpc = "period"
    /\ period_i > Len(PERIODS)
    /\ files' = ("docs/data/config.json" :>
                    [topics |-> [k \in 1..Len(TOPICS) |-> <<TOPICS[k], slugify(TOPICS[k])>>],
                     periods |-> PERIODS,
                     default_period |->
                        PERIODS[CHOOSE k \in 1..Len(PERIODS) :
                                   /\ PERIODS[k].is_default
                                   /\ \A j \in 1..(k - 1) : ~PERIODS[j].is_default].id])
                   @@ files
    /\ log' = log \o << "Saved config to docs/data/config.json", "Done!" >>
    /\ xpc' = "done"
    /\ UNCHANGED <<xdf, period_i, topic_i, n_exported, error>>
    /\ UNCHANGED <<scoreVars, topicVars, fetchVars>>

NextExport == LoadExport \/ ExportPeriod \/ ExportTopic \/ SaveConfig

(***************************************************************************)
(* The two programs that read all_votes_raw.csv.                           *)
(***************************************************************************)
InitMain == InitProcess \/ InitExport

NextMain == NextProcess \/ NextExport

SpecMain == InitMain /\ [][NextMain]_vars

(***************************************************************************)
(* Properties of the two main programs, checked under SpecMain.            *)
(***************************************************************************)
\* C14: a member vote whose position code lies outside AGAINST, FOR,
\* ABSTENTION, DID_NOT_VOTE causes a fatal error and is never coerced into a
\* scored row: every row that calculate_scores has scored carries one of the
\* four codes.
C14_UnknownPositionNeverScored ==
    pc \in {"scored", "done", "saved"} =>
        \A i \in 1..Len(df) : df[i].member_voted \in Positions

\* C17: when a topic filter (or a period/topic export filter) leaves zero
\* rows, the run ends without an error and without scores or statistics of
\* the empty set: process_votes.main returns after reporting no match, an
\* empty period is skipped, and export_data returns 0 without writing a file.
C17_EmptyFilterEndsQuietly ==
    /\ error = NoError
    /\ pc = "returned" =>
          /\ Truthy(topic) /\ df = <<>>
          /\ party_stats = <<>> /\ mep_stats = <<>>
          /\ DOMAIN files = {}
          /\ log[Len(log)] = "No records match this topic."
    /\ pc \in {"loaded", "scored", "done", "saved"} => Len(df) > 0
    /\ xpc # "idle" =>
          \A path \in DOMAIN files \ {"docs/data/config.json"} :
              files[path].meta.total_meps > 0
    /\ \A q \in 1..Len(PERIODS) :
          (xpc # "idle" /\ (q < period_i \/ (q = period_i /\ xpc = "topic")))
            => (period_path(PERIODS[q]) \in DOMAIN files
                  <=> Len(filter_by_period(xdf, PERIODS[q])) > 0)
    /\ (xpc = "topic" /\ topic_i >= 2) =>
          LET t == TOPICS[topic_i - 1]
              d == export_filter_by_topic(
                       filter_by_period(xdf, PERIODS[period_i]), t)
          IN  /\ n_exported = 0 <=> Len(d) = 0
              /\ n_exported = 0
                   <=> topic_path(PERIODS[period_i], t) \notin DOMAIN files

\* --topic budget on a table without such a topic: main has returned
C17_Witness ==
    /\ pc = "returned"
    /\ topic = Some("budget")
    /\ log = << "Loading data from data/all_votes_raw.csv...",
                "Loaded 2 records",
                "Filtered to 0 records matching topic 'budget'",
                "No records match this topic." >>
    /\ DOMAIN files = {}

\* C19: compute_stats emits exactly one LegislatorStats row per distinct
\* member id of the scored input, with n_votes the number of that member's
\* input rows, total_rebel_score the sum and avg_rebel_score the mean of
\* their rebel_score; the n_votes of all output rows sum to the number of
\* input rows.
C19_OneRowPerMember ==
    pc \in {"done", "saved"} =>
        /\ { mep_stats[j].member_id : j \in 1..Len(mep_stats) }
              = { df[i].member_id : i \in 1..Len(df) }
        /\ Len(mep_stats) = Cardinality({ df[i].member_id : i \in 1..Len(df) })
        /\ \A j \in 1..Len(mep_stats) :
              LET rows == SelectSeq(df, LAMBDA r : r.member_id = mep_stats[j].member_id)
              IN  /\ mep_stats[j].n_votes = Len(rows)
                  /\ mep_stats[j].total_rebel_score = FSum(Column(rows, "rebel_score"))
                  /\ mep_stats[j].avg_rebel_score = FMean(Column(rows, "rebel_score"))
        /\ SumOver(1..Len(mep_stats),
                   [j \in 1..Len(mep_stats) |-> mep_stats[j].n_votes]) = Len(df)

(***************************************************************************)
(* Further properties of compute_stats, checked under SpecStats.           *)
(***************************************************************************)
\* avg_rebel_score of the legislators that mep_stats assigns to party p
GroupAverages(p) ==
    Column(SelectSeq(mep_stats, LAMBDA r : r.party = p), "avg_rebel_score")

\* the sum of the squared deviations of xs from their mean
SquaredDeviations(xs) ==
    FSum([i \in 1..Len(xs) |-> FSq(FSub(xs[i], FMean(xs)))])

\* z is the quotient of diff and the square root of the variance var > 0
IsQuotient(z, diff, var) ==
    /\ z.k = "root"
    /\ z.s = Sign(diff.n)
    /\ Num(z.n, z.d) = FDiv(FSq(diff), var)

\* C18 as stated: for every group with group_std > 0, z_score =
\* (avg_rebel_score - group_avg_rebel) / group_std with group_avg_rebel the
\* unweighted mean and group_std the population standard deviation (divisor
\* N) of avg_rebel_score over the legislators of the group.
C18_ZScorePopulationStd ==
    pc = "done" =>
        \A j \in 1..Len(mep_stats) :
            LET xs == GroupAverages(mep_stats[j].party)
                var == FDiv(SquaredDeviations(xs), Int2F(Len(xs)))
            IN  var.n > 0 =>
                  /\ mep_stats[j].party_avg_rebel = FMean(xs)
                  /\ IsQuotient(mep_stats[j].z_score,
                                FSub(mep_stats[j].avg_rebel_score, FMean(xs)), var)

\* C18, amended: for every group with group_std > 0, z_score =
\* (avg_rebel_score - group_avg_rebel) / group_std with group_avg_rebel the
\* unweighted mean and group_std the sample standard deviation (divisor
\* N - 1) of avg_rebel_score over the legislators of the group.
C18_ZScoreSampleStd ==
    pc = "done" =>
        \A j \in 1..Len(mep_stats) :
            LET xs == GroupAverages(mep_stats[j].party)
            IN  SquaredDeviations(xs).n > 0 =>
                  /\ mep_stats[j].party_avg_rebel = FMean(xs)
                  /\ IsQuotient(mep_stats[j].z_score,
                                FSub(mep_stats[j].avg_rebel_score, FMean(xs)),
                                FDiv(SquaredDeviations(xs), Int2F(Len(xs) - 1)))

\* two legislators of one group with averages 1 and 0: the sample variance
\* is 1/2 and the z-scores are +/- sqrt(1/2), not +/- 1
C18_Witness ==
    /\ pc = "done"
    /\ Len(mep_stats) = 2
    /\ mep_stats[1].party = mep_stats[2].party
    /\ mep_stats[1].avg_rebel_score = One
    /\ mep_stats[2].avg_rebel_score = Zero
    /\ mep_stats[1].z_score = ZRoot(1, 1, 2)
    /\ mep_stats[2].z_score = ZRoot(-1, 1, 2)

\* the first row of member id in df
FirstRowOf(id) ==
    CHOOSE i \in 1..Len(df) :
        /\ df[i].member_id = id
        /\ \A k \in 1..(i - 1) : df[k].member_id # id

TallyAI(c, v) ==
    df[CHOOSE i \in 1..Len(df) : df[i].code = c /\ df[i].vote_id = v].AI

\* C21: for each group, GroupStats avg_agreement_index equals the mean of
\* the agreement index over the group's votes with each (vote, group) tally
\* counted once (not once per member row), and n_votes equals the number of
\* distinct vote ids in which the group appears.
C21_GroupMeanPerTally ==
    pc = "done" =>
        /\ DOMAIN party_stats = { df[i].code : i \in 1..Len(df) }
        /\ \A c \in DOMAIN party_stats :
              LET vs == SortedInts({ df[i].vote_id :
                                       i \in { k \in 1..Len(df) : df[k].code = c } })
              IN  /\ party_stats[c].n_votes = Len(vs)
                  /\ party_stats[c].avg_AI
                        = FMean([k \in 1..Len(vs) |-> TallyAI(c, vs[k])])

(***************************************************************************)
(* Properties of the two matching stages, checked under SpecMatch.         *)
(***************************************************************************)
\* a vote index with one unlabelled vote followed by labelled votes.  The
\* oeil_subjects of the unlabelled vote are phrases that hit one rule, two
\* rules, a vocabulary phrase, nested vocabulary phrases, or nothing; the
\* vocabulary is built from the topics of the labelled votes
MatchIndexes ==
    LET MatchSubjects ==
            { "Diseases", "Public health", "Road transport, Women and children",
              "Human rights in Belarus", "Security and justice policy",
              "Fisheries policy" }
        LabelledTopics == { "Health", "Energy, Transport", "Justice", "human rights" }
    IN  UNION { { [i \in 1..(k + 1) |->
                     IF i = 1
                     THEN [id |-> 1, topics |-> NA, oeil_subjects |-> Some(sj)]
                     ELSE [id |-> i, topics |-> Some(ts[i - 1]),
                           oeil_subjects |-> NA]] :
                    sj \in MatchSubjects, ts \in [1..k -> LabelledTopics] } :
                k \in 0..MaxLabelled }

InitMatch ==
    /\ tpc = "start"
    /\ columns = required_cols
    /\ votes \in MatchIndexes
    /\ gt = <<>>
    /\ votes_clean = <<>>
    /\ stats = <<>>
    /\ run = 1
    /\ ScoresIdle /\ FetchIdle /\ ExportIdle /\ EnvInit

SpecMatch == InitMatch /\ [][NextTopics]_vars

\* the rows that the matching stages work on
Unlabelled ==
    { i \in 1..Len(votes) : isna(votes[i].topics) /\ notna(votes[i].oeil_subjects) }

\* the topics listed in a topics_filled cell
FilledTopics(i) ==
    IF isna(votes_clean[i].topics_filled) THEN {}
    ELSE Range(split(votes_clean[i].topics_filled[1], ",")) \ {""}

\* the rules whose keyword is a substring of the lower-cased phrase
RulesIn(phrase) ==
    { k \in 1..Len(MAPPING_RULES) : contains(lower(phrase), MAPPING_RULES[k][1]) }

\* the topic of the first of them in declaration order, if there is one
FirstRuleTopic(phrase) ==
    IF RulesIn(phrase) = {} THEN {}
    ELSE { MAPPING_RULES[CHOOSE k \in RulesIn(phrase) :
                            \A j \in RulesIn(phrase) : k <= j][2] }

\* the topics that stage 1 contributes to row i
Stage1Topics(i) ==
    UNION { FirstRuleTopic(p) : p \in Range(subject_list(votes[i].oeil_subjects[1])) }

\* C22: in stage 1 each subject phrase contributes at most one topic, the
\* topic of the first rule in MAPPING_RULES declaration order whose keyword
\* is a substring of the lower-cased phrase; later matching rules of the
\* phrase contribute nothing, and the other phrases of the vote are scanned
\* independently: the topics of a filled row are exactly these first-rule
\* topics and the topics of stage 2, and one hit is counted per matching
\* phrase.
C22_FirstRulePerPhrase ==
    tpc = "filled" =>
        /\ \A i \in Unlabelled :
              { strip(t) : t \in FilledTopics(i) }
                 = Stage1Topics(i)
                     \cup PhraseTopics(subject_list(votes[i].oeil_subjects[1]),
                                       gt_lookup(gt))
        /\ stats.filled_from_mapping_hits
              = SumOver(Unlabelled,
                        [i \in Unlabelled |->
                            LET sl == subject_list(votes[i].oeil_subjects[1])
                            IN  Cardinality({ k \in 1..Len(sl) :
                                                RulesIn(sl[k]) # {} })])

\* "women and children" holds the keywords of two rules, children (first) and
\* women: only Youth and culture is added, next to the topic of the other
\* phrase
C22_Witness ==
    /\ tpc = "filled"
    /\ run = 1
    /\ Len(votes) = 1
    /\ isna(votes[1].topics)
    /\ votes[1].oeil_subjects = Some("Road transport, Women and children")
    /\ votes_clean[1].topics_filled = Some("Transport, Youth and culture")
    /\ stats.filled_from_mapping_hits = 2


\* the contiguous word n-grams of a subject phrase, lower-cased
NGrams(phrase) ==
    LET ws == words(lower(phrase))
    IN  { <<a, b>> \in (1..Len(ws)) \X (1..Len(ws)) : a <= b }

NGramText(phrase, ab) ==
    join(" ", SubSeq(words(lower(phrase)), ab[1], ab[2]))

\* the vocabulary topics whose lower-cased form is the text t
TopicsSpelled(t) == { gt[k] : k \in { j \in 1..Len(gt) : lower(gt[j]) = t } }

\* the one of them that comes last in the sorted vocabulary
LastSpelled(t) ==
    gt[CHOOSE k \in 1..Len(gt) :
          /\ lower(gt[k]) = t
          /\ \A j \in 1..Len(gt) : lower(gt[j]) = t => j <= k]

\* the n-grams of row i, as <<phrase index, <<first word, last word>>>>, whose
\* text is the lower-cased form of a vocabulary topic
MatchingNGrams(i) ==
    LET sl == subject_list(votes[i].oeil_subjects[1])
    IN  { h \in UNION { { <<k, ab>> : ab \in NGrams(sl[k]) } : k \in 1..Len(sl) } :
            TopicsSpelled(NGramText(sl[h[1]], h[2])) # {} }

\* C23 as stated: every n-gram of a subject phrase whose lower-cased text
\* equals a lower-cased vocabulary topic adds that topic, in its original
\* casing, to the topics of the row.
C23_EveryMatchingTopicAdded ==
    tpc = "filled" =>
        \A i \in Unlabelled :
            LET sl == subject_list(votes[i].oeil_subjects[1])
            IN  \A h \in MatchingNGrams(i) :
                    TopicsSpelled(NGramText(sl[h[1]], h[2]))
                        \subseteq { strip(t) : t \in FilledTopics(i) }

\* C23, amended: every n-gram of a subject phrase, of every length and at
\* every start, whose lower-cased text is the lower-cased form of a
\* vocabulary topic adds one topic, the last topic of the sorted vocabulary
\* with that lower-cased form, in its original casing; all matching n-grams
\* contribute and are counted, whether or not a rule matched the phrase.
C23_EveryNGramAddsLastSpelling ==
    tpc = "filled" =>
        /\ \A i \in Unlabelled :
              LET sl == subject_list(votes[i].oeil_subjects[1])
              IN  { strip(t) : t \in FilledTopics(i) }
                     = Stage1Topics(i)
                         \cup { LastSpelled(NGramText(sl[h[1]], h[2])) :
                                    h \in MatchingNGrams(i) }
        /\ stats.filled_from_phrase_hits
              = SumOver(Unlabelled,
                        [i \in Unlabelled |-> Cardinality(MatchingNGrams(i))])

\* "security and justice policy" holds the vocabulary topic Security and
\* Justice and, inside it, the topic Justice: both are added
C23_Witness ==
    /\ tpc = "filled"
    /\ run = 1
    /\ Len(votes) = 2
    /\ votes[1].oeil_subjects = Some("Security and justice policy")
    /\ votes[2].topics = Some("Justice")
    /\ votes_clean[1].topics_filled = Some("Justice, Security and Justice")
    /\ stats.filled_from_phrase_hits = 2


\* the match set of row i: the first-rule topics and the n-gram topics
MatchSet(i) ==
    LET sl == subject_list(votes[i].oeil_subjects[1])
    IN  Stage1Topics(i)
          \cup { LastSpelled(NGramText(sl[h[1]], h[2])) : h \in MatchingNGrams(i) }

\* the entries of a topics_filled cell, in the order they are written
FilledParts(i) ==
    LET parts == split(votes_clean[i].topics_filled[1], ",")
    IN  [k \in 1..Len(parts) |-> strip(parts[k])]

\* C24: for a row with empty raw topics and non-empty subject tags,
\* topics_filled is the list of the matched topics, each once, in ascending
\* order, joined with ", " when the match set is non-empty, and stays null
\* when no rule and no n-gram matches.
C24_SortedJoinOrNull ==
    tpc = "filled" =>
        \A i \in Unlabelled :
            IF MatchSet(i) = {}
            THEN isna(votes_clean[i].topics_filled)
            ELSE /\ notna(votes_clean[i].topics_filled)
                 /\ Range(FilledParts(i)) = MatchSet(i)
                 /\ Len(FilledParts(i)) = Cardinality(MatchSet(i))
                 /\ \A k \in 1..(Len(FilledParts(i)) - 1) :
                        StrLess(FilledParts(i)[k], FilledParts(i)[k + 1])
                 /\ votes_clean[i].topics_filled[1] = join(", ", FilledParts(i))

\* Transport is matched twice, by the rule "road transport" and by the n-gram
\* "transport", and is listed once, before Youth and culture
C24_Witness ==
    /\ tpc = "filled"
    /\ run = 1
    /\ Len(votes) = 2
    /\ votes[1].oeil_subjects = Some("Road transport, Women and children")
    /\ votes[2].topics = Some("Energy, Transport")
    /\ MatchSet(1) = { "Transport", "Youth and culture" }
    /\ stats.filled_from_mapping_hits = 2
    /\ stats.filled_from_phrase_hits = 1
    /\ votes_clean[1].topics_filled = Some("Transport, Youth and culture")


\* C27: every topic label written into topics_filled for a row that had no
\* raw topics, by a mapping rule or by a phrase match, is a member of the
\* topic vocabulary built for the run, the observed raw topics and
\* EXTRA_TOPICS.
C27_FilledTopicsInVocabulary ==
    tpc = "filled" =>
        \A i \in Unlabelled :
            { strip(t) : t \in FilledTopics(i) } \subseteq Range(gt)

(***************************************************************************)
(* Properties of the parallel fetch, checked under SpecFetch.              *)
(***************************************************************************)
\* the votes whose fetch succeeded
Succeeded == { v \in DOMAIN futures : futures[v].state = "seen" /\ futures[v].exc = "" }

\* the rows of vote v in the returned table, in their order
RowsOf(v) == SelectSeq(df_all, LAMBDA r : r.vote_id = v)

\* the returned table holds, for each successful vote, its rows once and
\* tagged with its vote id, and nothing else
SuccessfulRowsOnce ==
    /\ \A v \in Succeeded :
          /\ RowsOf(v) = futures[v].result
          /\ \E resp \in Responses(fetcher) :
                RowsOf(v) = [i \in 1..Len(resp) |->
                                [vote_id |-> v] @@
                                (IF fetcher = "members" THEN fetch_vote_mep(resp)
                                 ELSE fetch_vote_groups(resp))[i]]
    /\ \A i \in 1..Len(df_all) : df_all[i].vote_id \in Succeeded
    /\ Range(df_all) = UNION { Range(futures[v].result) : v \in Succeeded }

\* C25: for every completion order of the fetches, once the as_completed
\* loop is over the function has returned a table with the rows of exactly
\* the votes whose fetch succeeded, each successful vote's rows once and
\* tagged with its own vote id, each failed vote absent and every fetch run
\* once, so that the set of rows depends on the outcomes of the fetches only.
C25_ReturnsSuccessfulRowsOnce ==
    fpc # "collecting" =>
        /\ fpc = "returned"
        /\ completed = Len(futures)
        /\ SuccessfulRowsOnce


(***************************************************************************)
(* The group scores of export_to_json.calculate_scores,                    *)
(* export_to_json.py:61-73, on one merged row.                             *)
(***************************************************************************)
\* lines 66-73: group_voted is (count_for > count_against).astype(int),
\* majority the maximum over count_for and count_against, and the division
\* has no guard, 0/0 is NaN
export_rebel_score(r) ==
    LET group_voted == IF r.count_for > r.count_against THEN 1 ELSE 0
        export_total == r.count_for + r.count_against + r.count_abstentions
        majority == IF r.count_for >= r.count_against THEN r.count_for
                    ELSE r.count_against
        division == FSub(Int2F(1), FDiv(Int2F(majority), Int2F(export_total)))
        voted_opposite == r.member_voted \in {0, 1} /\ r.member_voted # group_voted
    IN  FMul(Int2F(IF voted_opposite THEN 1 ELSE 0), FSub(Int2F(1), division))

\* C26: for every input row the group rebel_score of
\* export_to_json.calculate_scores equals the rebel_score that
\* process_votes.calculate_scores stores for the same row.
C26_ExportScoreEqualsCoreScore ==
    Scored => \A i \in 1..Len(df) : export_rebel_score(df[i]) = df[i].rebel_score


(***************************************************************************)
(* Properties of the periods, checked under SpecMain.                      *)
(***************************************************************************)
\* the timestamps have been parsed
ExportLoaded == xpc \in {"period", "topic", "done"}

\* the periods whose filter_by_period selects row i of the loaded table
PeriodsOf(i) ==
    { k \in 1..Len(PERIODS) :
        \E j \in 1..Len(filter_by_period(xdf, PERIODS[k])) :
            filter_by_period(xdf, PERIODS[k])[j] = xdf[i] }

\* from the start of EP9 to the end of EP10
InConfiguredRange(ts) ==
    /\ TsLeq(to_datetime("2019-07-02"), ts)
    /\ TsLeq(ts, to_datetime("2029-07-15"))

\* C28: every vote whose timestamp lies between the start of EP9
\* (2019-07-02) and the end of EP10 (2029-07-15) is selected by
\* filter_by_period for exactly one of the configured PERIODS.
C28_ExactlyOnePeriod ==
    ExportLoaded =>
        \A i \in 1..Len(xdf) :
            InConfiguredRange(xdf[i].timestamp) => Cardinality(PeriodsOf(i)) = 1

=============================================================================
